---- MODULE Spec2Model ----
(***************************************************************************)
(* Model of streamlit_app.py: the GeoJSON dissolver.                       *)
(*                                                                         *)
(* A geometry is the finite set of lattice points <<lon, lat>> it covers,  *)
(* so the geometric union is set union and "same coverage" is set          *)
(* equality.  A GeoDataFrame is the sequence of its rows.  Colours are the *)
(* byte tuples of their hex strings: '#rrggbb' is <<r, g, b>> and          *)
(* '#rrggbbaa' is <<r, g, b, a>>.                                          *)
(***************************************************************************)
EXTENDS Integers, Sequences, FiniteSets, TLC

VARIABLES
    process_button,   \* st.button("3. Process File") of this script run
    uploaded_file,    \* st.file_uploader(...): a file or NoFile
    pc,               \* position of the script run
    original_gdf,     \* first value returned by process_data
    dissolved_gdf,    \* second value returned by process_data
    status,           \* calls made on the st.status widget, in order
    map_object,       \* first value returned by create_map
    color_mapping,    \* second value returned by create_map
    shown,            \* widgets written to the page, in order
    metrics,          \* the two st.metric values of the summary
    legend,           \* the legend rows written by st.markdown
    download,         \* data handed to st.download_button
    raised            \* the library calls that raised during this run

vars == <<process_button, uploaded_file, pc, original_gdf, dissolved_gdf, status,
          map_object, color_mapping, shown, metrics, legend, download, raised>>

----------------------------------------------------------------------------
(* Bounds of the model *)

MaxFeatures == 2

MaxLabels == 10

----------------------------------------------------------------------------
(* Values *)

\* A missing DN value (JSON null, read as NaN/None by geopandas).
NaN == -1

\* The value index.map gives a key that is not in the mapping.
NaNLabel == "nan"

DN_TO_LULC_MAP ==
    (1 :> "Water") @@ (2 :> "Tree Cover") @@ (4 :> "Flooded Vegetation") @@
    (5 :> "Agriculture") @@ (7 :> "Built Area") @@ (8 :> "Bare Ground") @@
    (11 :> "Rangeland")

\* Python None for a GeoDataFrame, and a GeoDataFrame with the given rows.
None == [none |-> TRUE, rows |-> <<>>]

Frame(rows) == [none |-> FALSE, rows |-> rows]

NoFile == [none |-> TRUE, hasDN |-> FALSE, crs |-> "None", features |-> <<>>]

Box(x0, x1, y0, y1) == {<<x, y>> : x \in x0..x1, y \in y0..y1}

\* Input geometries: a point, two segments, two boxes.
InputGeometries ==
    {Box(0, 0, 0, 0), Box(0, 1, 0, 0), Box(1, 1, 0, 1), Box(0, 1, 0, 1), Box(1, 1, 1, 1)}

InputDNs == {1, 2, 5, 99, NaN}

InputCRS == {"EPSG:4326", "EPSG:3857", "None"}

SeqsUpTo(S, n) == UNION {[1..k -> S] : k \in 0..n}

\* The files gpd.read_file can be given: the DN column exists only when some
\* feature carries the property, and then a feature may still hold null.
UploadedFiles ==
    {[none |-> FALSE, hasDN |-> h, crs |-> c, features |-> f] :
        h \in BOOLEAN, c \in InputCRS,
        f \in SeqsUpTo([DN : InputDNs, geometry : InputGeometries], MaxFeatures)}

ValidFile(f) ==
    /\ f.hasDN => Len(f.features) >= 1
    /\ ~f.hasDN => \A i \in 1..Len(f.features) : f.features[i].DN = NaN

RECURSIVE SetToSortedSeq(_)
SetToSortedSeq(K) ==
    IF K = {} THEN <<>>
    ELSE LET m == CHOOSE a \in K : \A b \in K : a <= b
         IN  <<m>> \o SetToSortedSeq(K \ {m})

RECURSIVE FirstAppearance(_)
\* The distinct values of a sequence in order of first appearance.
FirstAppearance(s) ==
    IF s = <<>> THEN <<>>
    ELSE LET front == FirstAppearance(SubSeq(s, 1, Len(s) - 1))
             x == s[Len(s)]
         IN  IF \E i \in 1..Len(front) : front[i] = x THEN front ELSE Append(front, x)

Range(s) == {s[i] : i \in 1..Len(s)}

----------------------------------------------------------------------------
(* process_data *)

GroupKeysUnsorted(rows) ==
    SelectSeq(FirstAppearance([i \in 1..Len(rows) |-> rows[i].DN]), LAMBDA k : k # NaN)

\* The group keys of gdf.dissolve(by='DN'): groupby with sort=True and
\* dropna=True, so ascending distinct keys with the null key dropped.
GroupKeys(rows) == SetToSortedSeq({rows[i].DN : i \in 1..Len(rows)} \ {NaN})

DissolveNoMerge(rows) ==
    LET kept == SelectSeq(rows, LAMBDA r : r.DN # NaN)
    IN  [k \in 1..Len(kept) |-> [DN |-> kept[k].DN, geometry |-> kept[k].geometry]]

\* gdf.dissolve(by='DN'): one row per group key, its geometry the union of the
\* group's geometries; DN is the index.
Dissolve(rows) ==
    LET keys == GroupKeys(rows)
    IN  [k \in 1..Len(keys) |->
            [DN |-> keys[k],
             geometry |-> UNION {rows[i].geometry :
                                   i \in {j \in 1..Len(rows) : rows[j].DN = keys[k]}}]]

IndexMapNoFill(dn_map, code) == IF code \in DOMAIN dn_map THEN dn_map[code] ELSE NaNLabel

\* index.map(dn_map).fillna('Unknown') for one index value.
LandUse(dn_map, code) ==
    LET mapped == IF code \in DOMAIN dn_map THEN dn_map[code] ELSE NaNLabel
    IN  IF mapped = NaNLabel THEN "Unknown" ELSE mapped

\* dissolved_gdf['land_use'] = ...; reset_index keeps the row order.
AddLandUse(rows, dn_map) ==
    [i \in 1..Len(rows) |->
        [DN |-> rows[i].DN, land_use |-> LandUse(dn_map, rows[i].DN),
         geometry |-> rows[i].geometry]]

\* The coordinate transform of to_crs("EPSG:4326"): the identity from EPSG:4326,
\* and from the projected reference a change of unit and origin.
Transform(crs, p) ==
    IF crs = "EPSG:4326" THEN p ELSE <<2 * p[1] - 1, 2 * p[2] - 1>>

ToCrs(rows, crs) ==
    [i \in 1..Len(rows) |->
        [DN |-> rows[i].DN, land_use |-> rows[i].land_use,
         geometry |-> {Transform(crs, p) : p \in rows[i].geometry}]]

\* The library calls of process_data that can raise.
ProcessFaults == {"none", "read_file", "dissolve", "to_crs"}

ProcessDataLenient(file, dn_map, fault) ==
    IF fault = "read_file"
    THEN [original |-> None, dissolved |-> None,
          status |-> <<"update:read", "error:unexpected">>, raised |-> {"read_file"}]
    ELSE IF fault = "dissolve"
    THEN [original |-> None, dissolved |-> None,
          status |-> <<"update:read", "update:dissolve", "error:unexpected">>,
          raised |-> {"dissolve"}]
    ELSE IF fault = "to_crs" \/ file.crs = "None"
    THEN [original |-> None, dissolved |-> None,
          status |-> <<"update:read", "update:dissolve", "update:map", "update:reproject",
                       "error:unexpected">>,
          raised |-> {"to_crs"}]
    ELSE [original |-> Frame(file.features),
          dissolved |-> Frame(ToCrs(AddLandUse(Dissolve(file.features), dn_map), file.crs)),
          status |-> <<"update:read", "update:dissolve", "update:map", "update:reproject",
                       "success">>,
          raised |-> {}]

\* process_data(uploaded_file, dn_map); fault names the library call that raises,
\* and raised the call that did raise before the function returned.
ProcessData(file, dn_map, fault) ==
    IF fault = "read_file"
    THEN [original |-> None, dissolved |-> None,
          status |-> <<"update:read", "error:unexpected">>, raised |-> {"read_file"}]
    ELSE IF ~file.hasDN
    THEN [original |-> None, dissolved |-> None,
          status |-> <<"update:read", "error:missing_DN">>, raised |-> {}]
    ELSE IF fault = "dissolve"
    THEN [original |-> None, dissolved |-> None,
          status |-> <<"update:read", "update:dissolve", "error:unexpected">>,
          raised |-> {"dissolve"}]
    ELSE IF fault = "to_crs" \/ file.crs = "None"
    THEN [original |-> None, dissolved |-> None,
          status |-> <<"update:read", "update:dissolve", "update:map", "update:reproject",
                       "error:unexpected">>,
          raised |-> {"to_crs"}]
    ELSE [original |-> Frame(file.features),
          dissolved |-> Frame(ToCrs(AddLandUse(Dissolve(file.features), dn_map), file.crs)),
          status |-> <<"update:read", "update:dissolve", "update:map", "update:reproject",
                       "success">>,
          raised |-> {}]

----------------------------------------------------------------------------
(* create_map: the view *)

Rat(n, d) == [num |-> n, den |-> d]

AllPoints(rows) == UNION {rows[i].geometry : i \in 1..Len(rows)}

RECURSIVE SumCoord(_, _)
SumCoord(P, k) ==
    IF P = {} THEN 0
    ELSE LET p == CHOOSE q \in P : TRUE IN p[k] + SumCoord(P \ {p}, k)

\* gdf.geometry.unary_union.centroid, as [center.y, center.x].
MapCenter(rows) ==
    LET P == AllPoints(rows)
    IN  <<Rat(SumCoord(P, 2), Cardinality(P)), Rat(SumCoord(P, 1), Cardinality(P))>>

\* gdf.total_bounds: <<min_lon, min_lat, max_lon, max_lat>>.
TotalBounds(rows) ==
    LET P == AllPoints(rows)
        lons == {p[1] : p \in P}
        lats == {p[2] : p \in P}
        Min(S) == CHOOSE a \in S : \A b \in S : a <= b
        Max(S) == CHOOSE a \in S : \A b \in S : a >= b
    IN  <<Min(lons), Min(lats), Max(lons), Max(lats)>>

\* folium.Map(location=..., zoom_start=...); with no location folium centres at
\* [0, 0] with zoom 1.
FoliumMap(location, zoom_start, fit_bounds) ==
    [none |-> FALSE, location |-> location, zoom_start |-> zoom_start,
     fit_bounds |-> fit_bounds, styles |-> <<>>, tooltip |-> <<>>]

NoMap ==
    [none |-> TRUE, location |-> <<>>, zoom_start |-> 0, fit_bounds |-> <<>>,
     styles |-> <<>>, tooltip |-> <<>>]

\* The library calls of create_map's try block that can raise.
MapFaults == {"none", "centroid", "total_bounds"}

PlanViewBoundsFirst(rows, fault) ==
    LET b == TotalBounds(rows)
    IN  IF fault # "total_bounds" /\ b[3] - b[1] > 0 /\ b[4] - b[2] > 0
        THEN [m |-> FoliumMap(<<Rat(0, 1), Rat(0, 1)>>, 1, <<<<b[2], b[1]>>, <<b[4], b[3]>>>>),
              warned |-> FALSE]
        ELSE IF fault = "none"
        THEN [m |-> FoliumMap(MapCenter(rows), 10, <<>>), warned |-> FALSE]
        ELSE [m |-> FoliumMap(<<Rat(0, 1), Rat(0, 1)>>, 2, <<>>), warned |-> TRUE]

\* The try/except of create_map that builds the map m.
PlanView(rows, fault) ==
    IF fault # "none"
    THEN [m |-> FoliumMap(<<Rat(0, 1), Rat(0, 1)>>, 2, <<>>), warned |-> TRUE]
    ELSE LET map_center == MapCenter(rows)
             b == TotalBounds(rows)
             zoom == 10
             lon_diff == b[3] - b[1]
             lat_diff == b[4] - b[2]
         IN  IF lon_diff > 0 /\ lat_diff > 0
             THEN [m |-> FoliumMap(<<Rat(0, 1), Rat(0, 1)>>, 1,
                                   <<<<b[2], b[1]>>, <<b[4], b[3]>>>>),
                   warned |-> FALSE]
             ELSE [m |-> FoliumMap(map_center, zoom, <<>>), warned |-> FALSE]

----------------------------------------------------------------------------
(* create_map: the colours *)

\* The characters of the labels, as code points.
CodePoints ==
    ("Water" :> <<87, 97, 116, 101, 114>>) @@
    ("Tree Cover" :> <<84, 114, 101, 101, 32, 67, 111, 118, 101, 114>>) @@
    ("Flooded Vegetation" :>
        <<70, 108, 111, 111, 100, 101, 100, 32, 86, 101, 103, 101, 116, 97, 116, 105, 111, 110>>) @@
    ("Agriculture" :> <<65, 103, 114, 105, 99, 117, 108, 116, 117, 114, 101>>) @@
    ("Built Area" :> <<66, 117, 105, 108, 116, 32, 65, 114, 101, 97>>) @@
    ("Bare Ground" :> <<66, 97, 114, 101, 32, 71, 114, 111, 117, 110, 100>>) @@
    ("Rangeland" :> <<82, 97, 110, 103, 101, 108, 97, 110, 100>>) @@
    ("Unknown" :> <<85, 110, 107, 110, 111, 119, 110>>) @@
    ("Snow/Ice" :> <<83, 110, 111, 119, 47, 73, 99, 101>>) @@
    ("Clouds" :> <<67, 108, 111, 117, 100, 115>>) @@
    ("Grass" :> <<71, 114, 97, 115, 115>>) @@
    ("nan" :> <<110, 97, 110>>)

RECURSIVE SeqLess(_, _)
SeqLess(a, b) ==
    IF a = <<>> THEN b # <<>>
    ELSE IF b = <<>> THEN FALSE
    ELSE IF a[1] # b[1] THEN a[1] < b[1]
    ELSE SeqLess(Tail(a), Tail(b))

\* Python's < on str: lexicographic by code point.
StrLess(a, b) == SeqLess(CodePoints[a], CodePoints[b])

RECURSIVE Sorted(_)
\* Python's sorted() on a list of strings.
Sorted(s) ==
    IF s = <<>> THEN <<>>
    ELSE LET rest == Sorted(Tail(s))
             x == s[1]
             n == Cardinality({i \in 1..Len(rest) : StrLess(rest[i], x)})
         IN  SubSeq(rest, 1, n) \o <<x>> \o SubSeq(rest, n + 1, Len(rest))

LandUseColumn(rows) == [i \in 1..Len(rows) |-> rows[i].land_use]

CategoriesUnsorted(rows) == FirstAppearance(LandUseColumn(rows))

\* categories = sorted(gdf['land_use'].unique())
Categories(rows) == Sorted(FirstAppearance(LandUseColumn(rows)))

\* The fixed palette of create_map.
Palette ==
    << <<31, 119, 180>>, <<255, 127, 14>>, <<44, 160, 44>>, <<214, 39, 40>>,
       <<148, 103, 189>>, <<140, 86, 75>>, <<227, 119, 194>>, <<127, 127, 127>> >>

\* The default of color_map.get in style_function: '#808080'.
Gray == <<128, 128, 128>>

\* The nine colours of branca's cm.linear.Set1_09, with alpha.
Set1_09 ==
    << <<228, 26, 28, 255>>, <<55, 126, 184, 255>>, <<77, 175, 74, 255>>,
       <<152, 78, 163, 255>>, <<255, 127, 0, 255>>, <<255, 255, 51, 255>>,
       <<166, 86, 40, 255>>, <<247, 129, 191, 255>>, <<153, 153, 153, 255>> >>

\* cm.linear.Set1_09.scale(0, n)(i): the knots are at n*k/8, the colour at i is
\* interpolated between the knots around it and each channel v in [0, 255] is
\* written as the byte int(v / 255 * 255.9999).
ColorScale(i, n) ==
    IF i <= 0 THEN Set1_09[1]
    ELSE IF i >= n THEN Set1_09[9]
    ELSE LET j == Cardinality({k \in 0..8 : n * k < 8 * i})
             q == 8 * i - n * (j - 1)
             Byte(c0, c1) ==
                 LET v == (n - q) * c0 + q * c1
                 IN  (v \div n) + (((v % n) * 2550000 + v * 9999) \div (n * 2550000))
         IN  [c \in 1..4 |-> Byte(Set1_09[j][c], Set1_09[j + 1][c])]

ColorsPaletteOnly(n) == Palette

ColorsPaletteThenScale(n) ==
    IF n <= 8 THEN Palette
    ELSE [i \in 1..n |-> IF i <= 8 THEN Palette[i] ELSE ColorScale(i - 1, n)]

\* The list colors of create_map for n categories.
Colors(n) ==
    IF n <= 8 THEN Palette ELSE [i \in 1..n |-> ColorScale(i - 1, n)]

\* {category: color for category, color in zip(categories, colors)}, in
\* insertion order.
Zip(categories, colors) ==
    LET n == IF Len(categories) <= Len(colors) THEN Len(categories) ELSE Len(colors)
    IN  [i \in 1..n |-> [category |-> categories[i], color |-> colors[i]]]

\* color_map.get(label, '#808080')
ColorMapGet(color_map, label) ==
    IF \E i \in 1..Len(color_map) : color_map[i].category = label
    THEN color_map[CHOOSE i \in 1..Len(color_map) : color_map[i].category = label].color
    ELSE Gray

\* style_function applied to every feature by folium.GeoJson.
Styles(rows, color_map) ==
    [i \in 1..Len(rows) |->
        [fillColor |-> ColorMapGet(color_map, rows[i].land_use), color |-> "black",
         weight |-> "1.0", fillOpacity |-> "0.7"]]

\* create_map(gdf); fault names the library call of the try block that raises.
CreateMap(rows, fault) ==
    IF rows = <<>>
    THEN [m |-> NoMap, color_map |-> <<>>, warnings |-> <<"warning:no_data">>]
    ELSE LET view == PlanView(rows, fault)
             categories == Categories(rows)
             color_map == Zip(categories, Colors(Len(categories)))
         IN  [m |-> [view.m EXCEPT !.styles = Styles(rows, color_map),
                                   !.tooltip = <<"land_use", "DN">>],
              color_map |-> color_map,
              warnings |-> IF view.warned THEN <<"warning:center">> ELSE <<>>]

----------------------------------------------------------------------------
(* The script run *)

\* dissolved_gdf.to_json(): a feature collection with one feature per row.
ToJson(rows) ==
    [i \in 1..Len(rows) |->
        [type |-> "Feature",
         properties |-> [DN |-> rows[i].DN, land_use |-> rows[i].land_use],
         geometry |-> rows[i].geometry]]

NoDownload == [none |-> TRUE, data |-> <<>>]

\* The legend rows: one (colour, label) pair per entry of color_mapping.
LegendRows(color_map) ==
    [i \in 1..Len(color_map) |-> <<color_map[i].color, color_map[i].category>>]

ExportUncaught(rows, fault) ==
    IF fault
    THEN [shown |-> <<"header:download", "exception">>, download |-> NoDownload, pc |-> "done"]
    ELSE [shown |-> <<"header:download", "download_button">>,
          download |-> [none |-> FALSE, data |-> ToJson(rows)], pc |-> "preview"]

\* The try/except around to_json and st.download_button; fault says that one of
\* them raises.
ExportResult(rows, fault) ==
    IF fault
    THEN [shown |-> <<"header:download", "error:download">>, download |-> NoDownload,
          pc |-> "preview"]
    ELSE [shown |-> <<"header:download", "download_button">>,
          download |-> [none |-> FALSE, data |-> ToJson(rows)], pc |-> "preview"]

Blank ==
    /\ original_gdf = None
    /\ dissolved_gdf = None
    /\ status = <<>>
    /\ map_object = NoMap
    /\ color_mapping = <<>>
    /\ shown = <<>>
    /\ metrics = <<>>
    /\ legend = <<>>
    /\ download = NoDownload
    /\ raised = {}

\* A script run starts with the widget values of the sidebar.
Init ==
    /\ process_button \in BOOLEAN
    /\ uploaded_file \in {NoFile} \cup {f \in UploadedFiles : ValidFile(f)}
    /\ pc = "start"
    /\ Blank

\* process_button and uploaded_file is not None: process_data runs.
RunProcessData ==
    /\ pc = "start"
    /\ process_button
    /\ ~uploaded_file.none
    /\ \E fault \in ProcessFaults :
          LET r == ProcessData(uploaded_file, DN_TO_LULC_MAP, fault)
          IN  /\ original_gdf' = r.original
              /\ dissolved_gdf' = r.dissolved
              /\ status' = r.status
              /\ raised' = r.raised
    /\ pc' = "processed"
    /\ UNCHANGED <<process_button, uploaded_file, map_object, color_mapping, shown,
                   metrics, legend, download>>

\* elif process_button and uploaded_file is None
WarnNoFile ==
    /\ pc = "start"
    /\ process_button
    /\ uploaded_file.none
    /\ shown' = Append(shown, "warning:upload_first")
    /\ pc' = "done"
    /\ UNCHANGED <<process_button, uploaded_file, original_gdf, dissolved_gdf, status,
                   map_object, color_mapping, metrics, legend, download, raised>>

\* else
InfoIdle ==
    /\ pc = "start"
    /\ ~process_button
    /\ shown' = Append(shown, "info:upload_and_click")
    /\ pc' = "done"
    /\ UNCHANGED <<process_button, uploaded_file, original_gdf, dissolved_gdf, status,
                   map_object, color_mapping, metrics, legend, download, raised>>

\* The test `original_gdf is not None and dissolved_gdf is not None` fails.
SkipOutputs ==
    /\ pc = "processed"
    /\ original_gdf.none \/ dissolved_gdf.none
    /\ pc' = "done"
    /\ UNCHANGED <<process_button, uploaded_file, original_gdf, dissolved_gdf, status,
                   map_object, color_mapping, shown, metrics, legend, download, raised>>

\* The summary header and the two metrics.
ShowSummary ==
    /\ pc = "processed"
    /\ ~original_gdf.none /\ ~dissolved_gdf.none
    /\ shown' = shown \o <<"header:summary", "metric:original", "metric:dissolved">>
    /\ metrics' = <<Len(original_gdf.rows), Len(dissolved_gdf.rows)>>
    /\ pc' = "map"
    /\ UNCHANGED <<process_button, uploaded_file, original_gdf, dissolved_gdf, status,
                   map_object, color_mapping, legend, download, raised>>

\* The map section: create_map, st_folium and the legend.
RenderMap ==
    /\ pc = "map"
    /\ \E fault \in MapFaults :
          LET r == CreateMap(dissolved_gdf.rows, fault)
              hasMap == ~r.m.none
              hasLegend == hasMap /\ r.color_map # <<>>
          IN  /\ map_object' = r.m
              /\ color_mapping' = r.color_map
              /\ raised' = IF dissolved_gdf.rows # <<>> /\ fault # "none"
                           THEN raised \cup {fault} ELSE raised
              /\ shown' = shown \o <<"header:map", "info:hover">> \o r.warnings
                                \o (IF hasMap THEN <<"st_folium">> ELSE <<>>)
                                \o (IF hasLegend THEN <<"subheader:legend", "markdown:legend">>
                                    ELSE <<>>)
              /\ legend' = IF hasLegend THEN LegendRows(r.color_map) ELSE <<>>
    /\ pc' = "export"
    /\ UNCHANGED <<process_button, uploaded_file, original_gdf, dissolved_gdf, status,
                   metrics, download>>

\* The download section.
Export ==
    /\ pc = "export"
    /\ \E fault \in BOOLEAN :
          LET r == ExportResult(dissolved_gdf.rows, fault)
          IN  /\ shown' = shown \o r.shown
              /\ download' = r.download
              /\ pc' = r.pc
              /\ raised' = IF fault THEN raised \cup {"to_json"} ELSE raised
    /\ UNCHANGED <<process_button, uploaded_file, original_gdf, dissolved_gdf, status,
                   map_object, color_mapping, metrics, legend>>

\* The data preview section.
Preview ==
    /\ pc = "preview"
    /\ shown' = shown \o <<"header:preview", "dataframe">>
    /\ pc' = "done"
    /\ UNCHANGED <<process_button, uploaded_file, original_gdf, dissolved_gdf, status,
                   map_object, color_mapping, metrics, legend, download, raised>>

Next ==
    \/ RunProcessData
    \/ WarnNoFile
    \/ InfoIdle
    \/ SkipOutputs
    \/ ShowSummary
    \/ RenderMap
    \/ Export
    \/ Preview

Spec == Init /\ [][Next]_vars

----------------------------------------------------------------------------
(* create_map on any dissolved frame: more labels than the registry holds *)

\* Rows a frame handed to create_map can hold: the registry's labels, "Unknown",
\* and labels of a larger registry.
LabelPool ==
    << [DN |-> 1, land_use |-> "Water"], [DN |-> 2, land_use |-> "Tree Cover"],
       [DN |-> 4, land_use |-> "Flooded Vegetation"], [DN |-> 5, land_use |-> "Agriculture"],
       [DN |-> 7, land_use |-> "Built Area"], [DN |-> 8, land_use |-> "Bare Ground"],
       [DN |-> 11, land_use |-> "Rangeland"], [DN |-> 99, land_use |-> "Unknown"],
       [DN |-> 9, land_use |-> "Snow/Ice"], [DN |-> 10, land_use |-> "Clouds"],
       [DN |-> 3, land_use |-> "Grass"] >>

PoolRow(j) ==
    [DN |-> LabelPool[j].DN, land_use |-> LabelPool[j].land_use,
     geometry |-> Box(j % 2, 1, 0, j % 3)]

\* The rows of the pool entries S, rotated by k places, reversed when rev, and
\* followed, when dup, by a second row carrying the first row's label.
MapFrame(S, k, rev, dup) ==
    LET base == SetToSortedSeq(S)
        n == Len(base)
        rot == [i \in 1..n |-> PoolRow(base[((i - 1 + k) % n) + 1])]
        ord == IF rev THEN [i \in 1..n |-> rot[n + 1 - i]] ELSE rot
    IN  IF dup
        THEN Append(ord, [DN |-> 98, land_use |-> ord[1].land_use, geometry |-> Box(0, 0, 0, 0)])
        ELSE ord

InitMap ==
    /\ process_button = TRUE
    /\ uploaded_file = NoFile
    /\ pc = "map"
    /\ \E S \in SUBSET (1..MaxLabels) : \E k \in 0..2 : \E rev, dup \in BOOLEAN :
          /\ S # {}
          /\ dissolved_gdf = Frame(MapFrame(S, k, rev, dup))
    /\ original_gdf = dissolved_gdf
    /\ status = <<"success">>
    /\ map_object = NoMap
    /\ color_mapping = <<>>
    /\ shown = <<"header:summary", "metric:original", "metric:dissolved">>
    /\ metrics = <<Len(original_gdf.rows), Len(dissolved_gdf.rows)>>
    /\ legend = <<>>
    /\ download = NoDownload
    /\ raised = {}

NextMap ==
    \/ RenderMap
    \/ Export
    \/ Preview

SpecMap == InitMap /\ [][NextMap]_vars

----------------------------------------------------------------------------
(* Properties of process_data *)

Processed == pc # "start" /\ process_button /\ ~uploaded_file.none

DissolveOK == Processed /\ ~dissolved_gdf.none

InputRows == uploaded_file.features

InputCodes == {InputRows[i].DN : i \in 1..Len(InputRows)} \ {NaN}

OutputCodes == [i \in 1..Len(dissolved_gdf.rows) |-> dissolved_gdf.rows[i].DN]

\* The input coverage of a set of rows, in the coordinates of the result.
Reprojected(P) == {Transform(uploaded_file.crs, p) : p \in P}

\* C1: the dissolved result has exactly one feature per distinct classification
\* code of the input: the codes of the dissolved features are the distinct codes
\* of the input, and there are as many features as codes.
C1_OnePerCode ==
    DissolveOK =>
        /\ Range(OutputCodes) = InputCodes
        /\ Len(dissolved_gdf.rows) = Cardinality(InputCodes)

C1_Witness ==
    /\ DissolveOK
    /\ Len(InputRows) = 2
    /\ InputRows[1].DN = InputRows[2].DN
    /\ InputRows[1].DN = 1
    /\ InputRows[1].geometry # InputRows[2].geometry
    /\ Len(dissolved_gdf.rows) = 1

\* C2: dissolve is area-preserving: the union of the dissolved geometries is the
\* union of all input geometries, and each dissolved geometry is the union of
\* exactly the input geometries that share its code.
C2_AreaPreserving ==
    DissolveOK =>
        /\ AllPoints(dissolved_gdf.rows) = Reprojected(AllPoints(InputRows))
        /\ \A i \in 1..Len(dissolved_gdf.rows) :
              dissolved_gdf.rows[i].geometry =
                  Reprojected(UNION {InputRows[j].geometry :
                                        j \in {k \in 1..Len(InputRows) :
                                                 InputRows[k].DN = dissolved_gdf.rows[i].DN}})

\* C3: label assignment is total: every dissolved feature has a non-empty label,
\* the registry's label for the codes 1, 2, 4, 5, 7, 8, 11 and "Unknown" for any
\* other code, and an unknown code never makes the run fail.
C3_LabelTotal ==
    /\ DissolveOK =>
          \A i \in 1..Len(dissolved_gdf.rows) :
              LET r == dissolved_gdf.rows[i]
              IN  /\ r.land_use \notin {"", NaNLabel}
                  /\ r.land_use =
                        CASE r.DN = 1 -> "Water"
                          [] r.DN = 2 -> "Tree Cover"
                          [] r.DN = 4 -> "Flooded Vegetation"
                          [] r.DN = 5 -> "Agriculture"
                          [] r.DN = 7 -> "Built Area"
                          [] r.DN = 8 -> "Bare Ground"
                          [] r.DN = 11 -> "Rangeland"
                          [] OTHER -> "Unknown"
    /\ (Processed /\ uploaded_file.hasDN /\ raised \cap ProcessFaults = {}) =>
          /\ ~dissolved_gdf.none
          /\ Range(OutputCodes) = InputCodes

C3_Witness ==
    /\ DissolveOK
    /\ Len(dissolved_gdf.rows) = 2
    /\ dissolved_gdf.rows[1].DN = 5 /\ dissolved_gdf.rows[1].land_use = "Agriculture"
    /\ dissolved_gdf.rows[2].DN = 99 /\ dissolved_gdf.rows[2].land_use = "Unknown"

IsError(msg) == msg \in {"error:missing_DN", "error:unexpected"}

\* C4: a fatal error aborts the run with no partial output: when the input lacks
\* the DN field, or reading, dissolving or reprojecting raises, process_data
\* reports one error message, returns (None, None) without running a later
\* stage, and the run shows no summary, map, legend or download.
C4_FatalAbort ==
    (Processed /\ (~uploaded_file.hasDN \/ raised \cap ProcessFaults # {})) =>
        /\ original_gdf = None
        /\ dissolved_gdf = None
        /\ Cardinality({i \in 1..Len(status) : IsError(status[i])}) = 1
        /\ IsError(status[Len(status)])
        /\ "success" \notin Range(status)
        /\ ("read_file" \in raised => status = <<"update:read", "error:unexpected">>)
        /\ ("read_file" \notin raised /\ ~uploaded_file.hasDN
               => status = <<"update:read", "error:missing_DN">>)
        /\ ("dissolve" \in raised => "update:map" \notin Range(status))
        /\ shown = <<>>
        /\ metrics = <<>>
        /\ map_object = NoMap
        /\ color_mapping = <<>>
        /\ legend = <<>>
        /\ download = NoDownload
        /\ pc \in {"processed", "done"}

C4_Witness ==
    /\ pc = "done"
    /\ Processed
    /\ ~uploaded_file.hasDN
    /\ Len(InputRows) = 2
    /\ status = <<"update:read", "error:missing_DN">>
    /\ shown = <<>>

\* C9: the dissolved features are ordered by strictly ascending classification
\* code whatever the order of the input features, so the sequence of codes is
\* the ascending sequence of the input's distinct codes.
C9_AscendingCodes ==
    DissolveOK =>
        /\ \A i, j \in 1..Len(OutputCodes) : i < j => OutputCodes[i] < OutputCodes[j]
        /\ Range(OutputCodes) = InputCodes

C9_Witness ==
    /\ DissolveOK
    /\ Len(InputRows) = 2
    /\ InputRows[1].DN = 99 /\ InputRows[2].DN = 2
    /\ OutputCodes = <<2, 99>>

----------------------------------------------------------------------------
(* Properties of create_map *)

\* The map section of the run has been executed.
MapStageDone == pc \in {"export", "preview", "done"} /\ ~dissolved_gdf.none

MapMade == MapStageDone /\ ~map_object.none

Labels == Range(LandUseColumn(dissolved_gdf.rows))

\* The number of labels of the result that sort before label l.
Rank(l) == Cardinality({k \in Labels : StrLess(k, l)})

ColorMapKeys == {color_mapping[i].category : i \in 1..Len(color_mapping)}

\* C5: with at most 8 distinct labels, the label at position i of the sorted
\* distinct labels gets palette[i]; so distinct labels get distinct colours and
\* the mapping depends only on the set of labels, not on the feature order.
C5_PaletteByRank ==
    (MapMade /\ Cardinality(Labels) <= 8) =>
        /\ ColorMapKeys = Labels
        /\ Len(color_mapping) = Cardinality(Labels)
        /\ \A i \in 1..Len(color_mapping) :
              color_mapping[i].color = Palette[Rank(color_mapping[i].category) + 1]
        /\ \A i, j \in 1..Len(color_mapping) :
              i # j => color_mapping[i].color # color_mapping[j].color

C5_Witness ==
    /\ MapMade
    /\ Cardinality(Labels) = 8
    /\ dissolved_gdf.rows[1].land_use = "Water"
    /\ color_mapping[8] = [category |-> "Water", color |-> <<127, 127, 127>>]
    /\ color_mapping[1] = [category |-> "Agriculture", color |-> <<31, 119, 180>>]

\* C6 as claimed: with more than 8 distinct labels there is one entry per label,
\* the first 8 labels in sorted order get the 8 colours of the fixed palette and
\* only the labels beyond position 8 get colours of the interpolated scale.
C6_FirstEightFromPalette ==
    (MapMade /\ Cardinality(Labels) > 8) =>
        /\ Len(color_mapping) = Cardinality(Labels)
        /\ \A i \in 1..Len(color_mapping) :
              IF i <= 8 THEN color_mapping[i].color = Palette[i]
              ELSE color_mapping[i].color \notin Range(Palette)

\* C6 as amended: with more than 8 distinct labels there is one entry per label,
\* and every label, the first 8 included, gets the colour the interpolated scale
\* gives its sorted position; no colour comes from the fixed palette.
C6_AllFromScale ==
    (MapMade /\ Cardinality(Labels) > 8) =>
        /\ Len(color_mapping) = Cardinality(Labels)
        /\ ColorMapKeys = Labels
        /\ color_mapping[1].color = <<228, 26, 28, 255>>
        /\ \A i \in 1..Len(color_mapping) :
              /\ Rank(color_mapping[i].category) = i - 1
              /\ color_mapping[i].color = ColorScale(i - 1, Cardinality(Labels))
              /\ color_mapping[i].color \notin Range(Palette)

C6_Witness ==
    /\ MapMade
    /\ Cardinality(Labels) = 10
    /\ Len(color_mapping) = 10
    /\ color_mapping[2].color = <<89, 106, 153, 255>>

\* The extent of the dissolved result, stated on its points.
ResultPoints == AllPoints(dissolved_gdf.rows)

PositiveExtent ==
    /\ \E p, q \in ResultPoints : p[1] < q[1]
    /\ \E p, q \in ResultPoints : p[2] < q[2]

IsExtent(b) ==
    /\ \A p \in ResultPoints : b[1][1] <= p[2] /\ p[2] <= b[2][1]
    /\ \A p \in ResultPoints : b[1][2] <= p[1] /\ p[1] <= b[2][2]
    /\ \E p \in ResultPoints : p[2] = b[1][1]
    /\ \E p \in ResultPoints : p[2] = b[2][1]
    /\ \E p \in ResultPoints : p[1] = b[1][2]
    /\ \E p \in ResultPoints : p[1] = b[2][2]

FitsBounds == map_object.fit_bounds # <<>> /\ IsExtent(map_object.fit_bounds)

\* location * den = sum of the coordinates: the location is the mean point.
AtCentroid ==
    /\ map_object.fit_bounds = <<>>
    /\ map_object.zoom_start = 10
    /\ map_object.location[1].den = Cardinality(ResultPoints)
    /\ map_object.location[2].den = Cardinality(ResultPoints)
    /\ map_object.location[1].num = SumCoord(ResultPoints, 2)
    /\ map_object.location[2].num = SumCoord(ResultPoints, 1)

WorldDefault ==
    /\ map_object.fit_bounds = <<>>
    /\ map_object.zoom_start = 2
    /\ map_object.location = <<Rat(0, 1), Rat(0, 1)>>

\* C7 as claimed: for every dissolved result, an empty one included, create_map
\* yields a map with a valid view: fit-to-bounds whenever the extent has positive
\* width and height (also when the centroid computation fails), otherwise the
\* centroid with zoom 10, and centre [0, 0] with zoom 2 only when the centroid
\* cannot be computed.
C7_Ladder ==
    MapStageDone =>
        /\ ~map_object.none
        /\ PositiveExtent => FitsBounds
        /\ (~PositiveExtent /\ "centroid" \notin raised) => AtCentroid
        /\ WorldDefault => "centroid" \in raised

\* C7 as amended: create_map never fails; for an empty result it returns no map
\* (and an empty colour map, with a warning); for a non-empty result the view is
\* centre [0, 0] with zoom 2 whenever the centroid or the bounds computation
\* raises, whatever the extent; otherwise fit-to-bounds when the extent has
\* positive width and height, and otherwise the centroid with zoom 10.
C7_ViewAsCoded ==
    MapStageDone =>
        /\ dissolved_gdf.rows = <<>> =>
              /\ map_object = NoMap
              /\ color_mapping = <<>>
              /\ "warning:no_data" \in Range(shown)
        /\ dissolved_gdf.rows # <<>> =>
              /\ ~map_object.none
              /\ raised \cap {"centroid", "total_bounds"} # {} =>
                    WorldDefault /\ "warning:center" \in Range(shown)
              /\ (raised \cap {"centroid", "total_bounds"} = {} /\ PositiveExtent) => FitsBounds
              /\ (raised \cap {"centroid", "total_bounds"} = {} /\ ~PositiveExtent) => AtCentroid

C7_Witness ==
    /\ MapStageDone
    /\ "centroid" \in raised
    /\ PositiveExtent
    /\ WorldDefault
    /\ Len(dissolved_gdf.rows) = 2

\* C10: for a non-empty dissolved result, in both palette branches, the keys of
\* the colour map are the distinct labels of the features: every feature's fill
\* colour is its palette entry and never the gray default, and the legend has
\* exactly one entry per distinct label, in sorted label order.
C10_ColorMapCoversLabels ==
    (MapStageDone /\ dissolved_gdf.rows # <<>>) =>
        /\ ~map_object.none
        /\ ColorMapKeys = Labels
        /\ Len(map_object.styles) = Len(dissolved_gdf.rows)
        /\ \A i \in 1..Len(dissolved_gdf.rows) :
              /\ map_object.styles[i].fillColor # Gray
              /\ \E k \in 1..Len(color_mapping) :
                    /\ color_mapping[k].category = dissolved_gdf.rows[i].land_use
                    /\ color_mapping[k].color = map_object.styles[i].fillColor
        /\ "markdown:legend" \in Range(shown)
        /\ Len(legend) = Cardinality(Labels)
        /\ {legend[i][2] : i \in 1..Len(legend)} = Labels
        /\ \A i \in 1..Len(legend) : legend[i] = <<color_mapping[i].color, color_mapping[i].category>>
        /\ \A i, j \in 1..Len(legend) : i < j => StrLess(legend[i][2], legend[j][2])

C10_Witness ==
    /\ MapStageDone
    /\ Cardinality(Labels) = 9
    /\ Len(dissolved_gdf.rows) = 10
    /\ Len(legend) = 9
    /\ map_object.styles[10].fillColor = map_object.styles[1].fillColor

----------------------------------------------------------------------------
(* Properties of the download section *)

IsSubSeqAt(s, t, k) == k + Len(t) - 1 <= Len(s) /\ \A i \in 1..Len(t) : s[k + i - 1] = t[i]

\* C8: an export failure fails only the download step: when to_json or the
\* download button raises, the summary, the map and the legend already produced
\* stay displayed, an error message is shown instead of the download button, and
\* the data preview still runs.
C8_ExportFailureIsLocal ==
    "to_json" \in raised =>
        /\ pc \in {"preview", "done"}
        /\ IsSubSeqAt(shown, <<"header:summary", "metric:original", "metric:dissolved">>, 1)
        /\ metrics = <<Len(original_gdf.rows), Len(dissolved_gdf.rows)>>
        /\ ~map_object.none => "st_folium" \in Range(shown)
        /\ color_mapping # <<>> =>
              "markdown:legend" \in Range(shown) /\ legend = LegendRows(color_mapping)
        /\ "error:download" \in Range(shown)
        /\ "download_button" \notin Range(shown)
        /\ "exception" \notin Range(shown)
        /\ download = NoDownload
        /\ pc = "done" =>
              IsSubSeqAt(shown, <<"header:download", "error:download", "header:preview",
                                  "dataframe">>, Len(shown) - 3)

C8_Witness ==
    /\ pc = "done"
    /\ "to_json" \in raised
    /\ "st_folium" \in Range(shown)
    /\ "markdown:legend" \in Range(shown)
    /\ shown[Len(shown)] = "dataframe"

====
